---------------------------- MODULE Spec2Model ----------------------------
(***************************************************************************)
(* A model of the ulog package: the box-style Logger (NewLogger,           *)
(* formatBox, the six category methods and the six global functions that   *)
(* use DefaultLogger) and the structured-data helpers (MapAsPrettyString,  *)
(* ValueAsString, ListAsPrettyString, ListAsPrettyStringWithIndex,         *)
(* PrintMapWithIndent).                                                    *)
(*                                                                         *)
(* A Go string is a sequence of characters, each character a TLA+ string.  *)
(* len() in Go counts bytes, so every character carries its UTF-8 width    *)
(* (ByteLen).  An ANSI escape sequence written by a colour function is one *)
(* element of the sequence (an invisible one).                             *)
(***************************************************************************)
EXTENDS Integers, Sequences, FiniteSets, TLC

VARIABLES
    loggers,   \* handle -> Logger: "DefaultLogger" and, once built, "custom"
    written,   \* the text the most recent call wrote to standard output
    call,      \* the most recent call: its name, its arguments, its result
    crashed    \* TRUE once a call has panicked (the process is gone)

vars == <<loggers, written, call, crashed>>

(***************************************************************************)
(* Bounds of the model.                                                    *)
(***************************************************************************)
MaxMsgLen == 2
MaxTagLen == 2
MaxPadding == 3
MaxKeys == 2
MaxListLen == 3

(***************************************************************************)
(* Characters and strings.                                                 *)
(***************************************************************************)
topLeft == "<tl>"
topRight == "<tr>"
bottomLeft == "<bl>"
bottomRight == "<br>"
horizontal == "<h>"
vertical == "<v>"

BoxChars == {topLeft, topRight, bottomLeft, bottomRight, horizontal, vertical}

\* A two-byte character (U+00E9) for text that is not ASCII.
eAcute == "<U+00E9>"

\* The escape sequences of the colour functions, and the reset that ends each.
EscReset == "ESC[0m"
warningColor == "ESC[33m"
messageColor == "ESC[34m"
infoColor == "ESC[0m"
errorColor == "ESC[31m"
successColor == "ESC[32m"
ongoingColor == "ESC[93m"
tagColor == "ESC[1m"

Escapes ==
    {EscReset, warningColor, messageColor, infoColor, errorColor,
     successColor, ongoingColor, tagColor}

\* The number of bytes of one character in UTF-8; an escape sequence is
\* ESC, '[', its digits and 'm'.
ByteLen(c) ==
    IF c \in BoxChars THEN 3
    ELSE IF c = eAcute THEN 2
    ELSE IF c \in {warningColor, messageColor, errorColor, successColor} THEN 5
    ELSE IF c = ongoingColor THEN 5
    ELSE IF c \in {EscReset, tagColor} THEN 4
    ELSE 1

\* Go's len(s): the number of bytes of s.
RECURSIVE GoLen(_)
GoLen(s) == IF s = <<>> THEN 0 ELSE ByteLen(Head(s)) + GoLen(Tail(s))

\* strings.Repeat(c, count) for count >= 0; a negative count panics, which
\* the callers test with RepeatPanics before they build the string.
Repeat(c, count) == [i \in 1..count |-> c]
RepeatPanics(count) == count < 0

\* The index of the first occurrence of character c in s, 0 when absent.
RECURSIVE IndexOf(_, _, _)
IndexOf(s, c, i) ==
    IF i > Len(s) THEN 0
    ELSE IF s[i] = c THEN i
    ELSE IndexOf(s, c, i + 1)

\* strings.Split(s, sep) for a one-character separator: never empty, and
\* the empty string gives one empty piece.
RECURSIVE Split(_, _)
Split(s, sep) ==
    LET i == IndexOf(s, sep, 1)
    IN  IF i = 0 THEN <<s>>
        ELSE <<SubSeq(s, 1, i - 1)>> \o Split(SubSeq(s, i + 1, Len(s)), sep)

\* A colour function that wraps its text twice.
SprintTwice(colorFunc, s) == <<colorFunc, colorFunc>> \o s \o <<EscReset, EscReset>>

\* A colour function made by color.New(attr).SprintFunc(): the text between
\* the attribute's escape sequence and the reset.
Sprint(colorFunc, s) == <<colorFunc>> \o s \o <<EscReset>>

\* What a terminal shows of s: everything but the escape sequences.
Visible(s) == SelectSeq(s, LAMBDA c : c \notin Escapes)

\* Concatenation of a sequence of strings.
RECURSIVE Concat(_)
Concat(ss) == IF ss = <<>> THEN <<>> ELSE Head(ss) \o Concat(Tail(ss))

(***************************************************************************)
(* time.Now().Format("15:04:05")                                           *)
(***************************************************************************)
Digits == <<"0", "1", "2", "3", "4", "5", "6", "7", "8", "9">>
Digit(d) == Digits[d + 1]
TwoDigits(n) == <<Digit(n \div 10), Digit(n % 10)>>

\* t is the time of day in seconds since midnight.
FormatClock(t) ==
    TwoDigits(t \div 3600) \o <<":">> \o TwoDigits((t \div 60) % 60)
        \o <<":">> \o TwoDigits(t % 60)

(***************************************************************************)
(* Logger                                                                  *)
(***************************************************************************)
NewLoggerUnclamped(showTimestamp, padding) ==
    [showTimestamp |-> showTimestamp, padding |-> padding]

NewLogger(showTimestamp, padding) ==
    [showTimestamp |-> showTimestamp,
     padding |-> IF padding < 1 THEN 1 ELSE padding]

\* A default logger that shows no timestamp.
DefaultLoggerUnstamped == NewLogger(FALSE, 1)

DefaultLogger == NewLogger(TRUE, 1)

\* The longest line in bytes (the loop of formatBox, from 0).
RECURSIVE LongestLine(_, _)
LongestLine(lines, maxLength) ==
    IF lines = <<>> THEN maxLength
    ELSE LongestLine(Tail(lines),
                     IF GoLen(Head(lines)) > maxLength
                     THEN GoLen(Head(lines)) ELSE maxLength)

\* maxLength of formatBox after the tag and the padding are added.
BoxWidth(l, message, tag) ==
    LET lines == Split(message, "\n")
        longest == LongestLine(lines, 0)
        withTag == IF tag /= <<>> /\ GoLen(tag) + 4 > longest
                   THEN GoLen(tag) + 4 ELSE longest
    IN  withTag + l.padding * 2

\* The counts formatBox hands to strings.Repeat for the right padding.
TimestampPad(maxLength, now) == maxLength - GoLen(FormatClock(now))

\* A right padding that ignores the length of the line.
LinePadFixed(maxLength, line) == maxLength

LinePad(maxLength, line) == maxLength - GoLen(line)

TopBorder(maxLength, tag, colorFunc) ==
    LET topBorder == <<topLeft>> \o Repeat(horizontal, maxLength) \o <<topRight>>
    IN  IF tag /= <<>>
        THEN LET tagDisplay == <<" ">> \o Sprint(tagColor, tag) \o <<" ">>
                 \* strings.SplitN(topBorder, "", 2): the first character, the rest
                 topBorderParts == <<SubSeq(topBorder, 1, 1), Tail(topBorder)>>
             IN  Sprint(colorFunc,
                        topBorderParts[1] \o tagDisplay \o topBorderParts[2])
        ELSE Sprint(colorFunc, topBorder)

TimestampLine(l, maxLength, colorFunc, now) ==
    LET timestamp == FormatClock(now)
        paddedLine == <<vertical>> \o Repeat(" ", l.padding) \o timestamp
    IN  Sprint(colorFunc,
               paddedLine \o Repeat(" ", TimestampPad(maxLength, now))
                   \o <<vertical>>)

MessageLine(l, maxLength, colorFunc, line) ==
    LET paddedLine == <<vertical>> \o Repeat(" ", l.padding) \o line
    IN  Sprint(colorFunc,
               paddedLine \o Repeat(" ", LinePad(maxLength, line))
                   \o <<vertical>>)

BottomBorder(maxLength, colorFunc) ==
    Sprint(colorFunc,
           <<bottomLeft>> \o Repeat(horizontal, maxLength) \o <<bottomRight>>)

\* The lines of a box whose timestamp line does not depend on showTimestamp.
BoxLinesAlwaysStamped(l, lines, maxLength, tag, colorFunc, now) ==
    <<TopBorder(maxLength, tag, colorFunc)>>
        \o <<TimestampLine(l, maxLength, colorFunc, now)>>
        \o [i \in 1..Len(lines) |-> MessageLine(l, maxLength, colorFunc, lines[i])]
        \o <<BottomBorder(maxLength, colorFunc)>>

\* The lines formatBox writes to its builder, in order, without line breaks.
BoxLines(l, lines, maxLength, tag, colorFunc, now) ==
    <<TopBorder(maxLength, tag, colorFunc)>>
        \o (IF l.showTimestamp
            THEN <<TimestampLine(l, maxLength, colorFunc, now)>>
            ELSE <<>>)
        \o [i \in 1..Len(lines) |-> MessageLine(l, maxLength, colorFunc, lines[i])]
        \o <<BottomBorder(maxLength, colorFunc)>>

\* Whether one of the strings.Repeat calls of formatBox panics.
BoxPanics(l, lines, maxLength, now) ==
    \/ RepeatPanics(maxLength)
    \/ RepeatPanics(l.padding)
    \/ l.showTimestamp /\ RepeatPanics(TimestampPad(maxLength, now))
    \/ \E i \in 1..Len(lines) : RepeatPanics(LinePad(maxLength, lines[i]))

\* The lines joined with a line break after every line, the last included.
JoinLinesTrailing(ls) == Concat([i \in 1..Len(ls) |-> ls[i] \o <<"\n">>])

\* Every line but the last is followed by a line break.
RECURSIVE JoinLines(_)
JoinLines(ls) ==
    IF Len(ls) = 1 THEN ls[1]
    ELSE Head(ls) \o <<"\n">> \o JoinLines(Tail(ls))

\* formatBox: the box, or a panic when a repeat count is negative.
formatBox(l, message, tag, colorFunc, now) ==
    LET lines == Split(message, "\n")
        maxLength == BoxWidth(l, message, tag)
    IN  IF BoxPanics(l, lines, maxLength, now)
        THEN [panic |-> TRUE, text |-> <<>>]
        ELSE [panic |-> FALSE,
              text |-> JoinLines(BoxLines(l, lines, maxLength, tag, colorFunc,
                                          now))]

(***************************************************************************)
(* The inputs of the calls.                                                *)
(***************************************************************************)
MsgAlphabet == {"a", "\n", eAcute}
TagAlphabet == {"T"}

SeqsUpTo(alphabet, n) == UNION {[1..k -> alphabet] : k \in 0..n}

Messages == SeqsUpTo(MsgAlphabet, MaxMsgLen)
Tags == SeqsUpTo(TagAlphabet, MaxTagLen)

\* The variadic tag argument: none, one tag, or a tag and a second one.
TagArgs ==
    {<<>>} \cup {<<t>> : t \in Tags} \cup {<<t, <<"X">>>> : t \in Tags}

PaddingArgs == -1..MaxPadding

\* Times of day time.Now() may return, in seconds since midnight
\* (01:02:03 and 23:59:59).
Instants == {3723, 86399}

\* formatBox reads the clock only when the logger shows timestamps.
ClockReads(l) == IF l.showTimestamp THEN Instants ELSE {0}

NoCall == [op |-> "none"]

(***************************************************************************)
(* The state after the package is initialised.                             *)
(***************************************************************************)
Init ==
    /\ loggers = [h \in {"DefaultLogger"} |-> DefaultLogger]
    /\ written = <<>>
    /\ call = NoCall
    /\ crashed = FALSE

\* A call starts when no call is under way and the process is alive.
Idle == ~crashed /\ call.op = "none"

\* customLogger := NewLogger(showTimestamp, padding)
NewLoggerCall ==
    /\ Idle
    /\ \E showTimestamp \in BOOLEAN, padding \in PaddingArgs :
          /\ loggers' = [h \in DOMAIN loggers \cup {"custom"} |->
                            IF h = "custom"
                            THEN NewLogger(showTimestamp, padding)
                            ELSE loggers[h]]
          /\ call' = [op |-> "NewLogger", showTimestamp |-> showTimestamp,
                      padding |-> padding]
    /\ written' = <<>>
    /\ UNCHANGED crashed

\* tagStr of the category methods: the first tag, or the empty string.
TagStr(tag) == IF Len(tag) > 0 THEN tag[1] ELSE <<>>

\* The body shared by the six category methods:
\* fmt.Println(l.formatBox(message, tagStr, colorFunc)).
Log(op, via, h, message, tag, colorFunc) ==
    \E now \in ClockReads(loggers[h]) :
    LET box == formatBox(loggers[h], message, TagStr(tag), colorFunc, now)
    IN  /\ call' = [op |-> op, via |-> via, logger |-> h, message |-> message,
                    tag |-> tag, now |-> now, panic |-> box.panic]
        /\ written' = IF box.panic THEN <<>> ELSE box.text \o <<"\n">>
        /\ crashed' = box.panic
        /\ UNCHANGED loggers

LoggerWarning ==
    /\ Idle
    /\ \E h \in DOMAIN loggers, message \in Messages, tag \in TagArgs :
           Log("Warning", "method", h, message, tag, warningColor)

LoggerMessage ==
    /\ Idle
    /\ \E h \in DOMAIN loggers, message \in Messages, tag \in TagArgs :
           Log("Message", "method", h, message, tag, messageColor)

LoggerInfo ==
    /\ Idle
    /\ \E h \in DOMAIN loggers, message \in Messages, tag \in TagArgs :
           Log("Info", "method", h, message, tag, infoColor)

LoggerError ==
    /\ Idle
    /\ \E h \in DOMAIN loggers, message \in Messages, tag \in TagArgs :
           Log("Error", "method", h, message, tag, errorColor)

LoggerSuccess ==
    /\ Idle
    /\ \E h \in DOMAIN loggers, message \in Messages, tag \in TagArgs :
           Log("Success", "method", h, message, tag, successColor)

LoggerOngoing ==
    /\ Idle
    /\ \E h \in DOMAIN loggers, message \in Messages, tag \in TagArgs :
           Log("Ongoing", "method", h, message, tag, ongoingColor)

\* The global functions: the same-named method of DefaultLogger.
Warning ==
    /\ Idle
    /\ \E message \in Messages, tag \in TagArgs :
           Log("Warning", "global", "DefaultLogger", message, tag, warningColor)

Message ==
    /\ Idle
    /\ \E message \in Messages, tag \in TagArgs :
           Log("Message", "global", "DefaultLogger", message, tag, messageColor)

Info ==
    /\ Idle
    /\ \E message \in Messages, tag \in TagArgs :
           Log("Info", "global", "DefaultLogger", message, tag, infoColor)

Error ==
    /\ Idle
    /\ \E message \in Messages, tag \in TagArgs :
           Log("Error", "global", "DefaultLogger", message, tag, errorColor)

Success ==
    /\ Idle
    /\ \E message \in Messages, tag \in TagArgs :
           Log("Success", "global", "DefaultLogger", message, tag, successColor)

Ongoing ==
    /\ Idle
    /\ \E message \in Messages, tag \in TagArgs :
           Log("Ongoing", "global", "DefaultLogger", message, tag, ongoingColor)

\* The caller goes on after a call that returned: what the next call writes
\* and records starts empty.  Nothing follows a panic.
Return ==
    /\ ~crashed
    /\ call.op /= "none"
    /\ call' = NoCall
    /\ written' = <<>>
    /\ UNCHANGED <<loggers, crashed>>

Next ==
    \/ Return
    \/ NewLoggerCall
    \/ LoggerWarning
    \/ LoggerMessage
    \/ LoggerInfo
    \/ LoggerError
    \/ LoggerSuccess
    \/ LoggerOngoing
    \/ Warning
    \/ Message
    \/ Info
    \/ Error
    \/ Success
    \/ Ongoing

Spec == Init /\ [][Next]_vars


(***************************************************************************)
(* What the claims about the Logger read from a state.                     *)
(***************************************************************************)
LogOps == {"Warning", "Message", "Info", "Error", "Success", "Ongoing"}

IsLogCall == call.op \in LogOps

\* The lines a call wrote, each as a terminal shows it (Println's final line
\* break removed).
WrittenLines ==
    LET text == SubSeq(written, 1, Len(written) - 1)
        ls == Split(text, "\n")
    IN  [i \in 1..Len(ls) |-> Visible(ls[i])]

\* The lines between the two borders.
InteriorLines == SubSeq(WrittenLines, 2, Len(WrittenLines) - 1)

\* C1: formatBox is total: a call of a category method or global function
\* never fails, whatever the message, the tag, the padding (>= 1) and
\* showTimestamp are, and every right-padding count it computes (for the
\* timestamp line and for each message line) is >= 0.
C1_FormatBoxTotal ==
    IsLogCall =>
        LET l == loggers[call.logger]
            tag == TagStr(call.tag)
            lines == Split(call.message, "\n")
            maxLength == BoxWidth(l, call.message, tag)
        IN  /\ ~call.panic
            /\ l.showTimestamp => TimestampPad(maxLength, call.now) >= 0
            /\ \A i \in 1..Len(lines) : LinePad(maxLength, lines[i]) >= 0

\* C2: for a single-line message with no tag, every interior line of the box
\* (the timestamp line when enabled, and the message line) has 2*padding + W
\* + 2 characters, W the length of the message line, and so have the top
\* border and the bottom border.
C2_InteriorLineWidth ==
    (/\ IsLogCall
     /\ ~call.panic
     /\ TagStr(call.tag) = <<>>
     /\ IndexOf(call.message, "\n", 1) = 0)
    =>
        LET width == 2 * loggers[call.logger].padding + Len(call.message) + 2
        IN  /\ \A i \in 1..Len(InteriorLines) : Len(InteriorLines[i]) = width
            /\ Len(WrittenLines[1]) = width
            /\ Len(WrittenLines[Len(WrittenLines)]) = width

\* C3: NewLogger(showTimestamp, padding) yields a Logger with padding
\* max(padding, 1) and the showTimestamp given, so every Logger has
\* padding >= 1.
C3_NewLoggerClampsPadding ==
    /\ call.op = "NewLogger" =>
           /\ loggers["custom"].showTimestamp = call.showTimestamp
           /\ loggers["custom"].padding =
                  (IF call.padding >= 1 THEN call.padding ELSE 1)
    /\ \A h \in DOMAIN loggers : loggers[h].padding >= 1

\* A logger was built from a padding below 1, and one from a padding above 1.
C3_Witness ==
    /\ call.op = "NewLogger"
    /\ call.padding < 1
    /\ loggers["custom"].padding = 1
    /\ ~call.showTimestamp


(***************************************************************************)
(* Structured values: map[string]interface{} and what it holds.            *)
(*                                                                         *)
(* A value is a string, an int, a bool, a map (a function from keys to     *)
(* values) or a list ([]interface{}, a sequence of values).  A Go map has  *)
(* no order: each range over it visits the keys in some order, so an       *)
(* operation that ranges over a map has a set of possible results.         *)
(***************************************************************************)
StrV(s) == [kind |-> "string", s |-> s]
IntV(n) == [kind |-> "int", n |-> n]
BoolV(b) == [kind |-> "bool", b |-> b]
MapV(m) == [kind |-> "map", m |-> m]
ListV(items) == [kind |-> "list", items |-> items]

\* The orders in which a range may visit the keys K.
Orders(K) ==
    {o \in [1..Cardinality(K) -> K] : \A i, j \in DOMAIN o : i /= j => o[i] /= o[j]}

\* The byte of an ASCII character of a key.
ByteOf(c) ==
    CASE c = "Z" -> 90
      [] c = "a" -> 97
      [] c = "b" -> 98
      [] c = "c" -> 99
      [] c = "k" -> 107
      [] OTHER -> 127

\* Go's < on strings: byte-wise, a proper prefix first.
RECURSIVE StringLess(_, _)
StringLess(x, y) ==
    IF y = <<>> THEN FALSE
    ELSE IF x = <<>> THEN TRUE
    ELSE IF ByteOf(Head(x)) /= ByteOf(Head(y))
         THEN ByteOf(Head(x)) < ByteOf(Head(y))
    ELSE StringLess(Tail(x), Tail(y))

RECURSIVE InsertString(_, _)
InsertString(k, sorted) ==
    IF sorted = <<>> THEN <<k>>
    ELSE IF StringLess(k, Head(sorted)) THEN <<k>> \o sorted
    ELSE <<Head(sorted)>> \o InsertString(k, Tail(sorted))

\* The keys left in the order the range produced them.
SortStringsSkipped(keys) == keys

\* sort.Strings(keys)
RECURSIVE SortStrings(_)
SortStrings(keys) ==
    IF keys = <<>> THEN <<>>
    ELSE InsertString(Head(keys), SortStrings(Tail(keys)))

\* %d
RECURSIVE FormatNat(_)
FormatNat(n) ==
    IF n < 10 THEN <<Digit(n)>> ELSE FormatNat(n \div 10) \o <<Digit(n % 10)>>

FormatInt(n) == IF n < 0 THEN <<"-">> \o FormatNat(-n) ELSE FormatNat(n)

\* The keys of m in ascending order, as the fmt package prints a map.
FmtKeys(m) ==
    CHOOSE o \in Orders(DOMAIN m) :
        \A i \in 1..(Len(o) - 1) : StringLess(o[i], o[i + 1])

\* fmt's %v: a string as it is, a number in decimal, true or false, a slice
\* as [e1 e2 ...], a map as map[k1:v1 k2:v2 ...] with its keys sorted.
RECURSIVE FmtV(_), FmtItems(_, _), FmtEntries(_, _, _)
FmtV(v) ==
    CASE v.kind = "string" -> v.s
      [] v.kind = "int" -> FormatInt(v.n)
      [] v.kind = "bool" ->
             IF v.b THEN <<"t", "r", "u", "e">> ELSE <<"f", "a", "l", "s", "e">>
      [] v.kind = "list" -> <<"[">> \o FmtItems(v.items, 1) \o <<"]">>
      [] v.kind = "map" ->
             <<"m", "a", "p", "[">> \o FmtEntries(v.m, FmtKeys(v.m), 1) \o <<"]">>

FmtItems(items, i) ==
    IF i > Len(items) THEN <<>>
    ELSE (IF i > 1 THEN <<" ">> ELSE <<>>) \o FmtV(items[i])
             \o FmtItems(items, i + 1)

FmtEntries(m, keys, i) ==
    IF i > Len(keys) THEN <<>>
    ELSE (IF i > 1 THEN <<" ">> ELSE <<>>) \o keys[i] \o <<":">>
             \o FmtV(m[keys[i]]) \o FmtEntries(m, keys, i + 1)

\* The string case of ValueAsString without its quotes.
QuotedBare(val) == val

\* `"` + val + `"`
Quoted(val) == <<"\"">> \o val \o <<"\"">>

\* Every fragment, not only the first, before the result.
PrependAll(beforeMessage, result) ==
    IF Len(beforeMessage) > 0
    THEN Concat([i \in 1..Len(beforeMessage) |-> beforeMessage[i] \o <<" ">>])
             \o result
    ELSE result

\* if len(beforeMessage) > 0 { return beforeMessage[0] + " " + result }
Prepend(beforeMessage, result) ==
    IF Len(beforeMessage) > 0
    THEN beforeMessage[1] \o <<" ">> \o result
    ELSE result

\* MapAsPrettyString(m, beforeMessage...) and ValueAsString(v): the strings
\* a call may return, one for each order its ranges may take.
RECURSIVE MapAsPrettyString(_, _), MapEntries(_, _, _), ValueAsString(_)
MapAsPrettyString(m, beforeMessage) ==
    {Prepend(beforeMessage, <<"{">> \o body \o <<"}">>) :
        body \in UNION {MapEntries(m, o, 1) : o \in Orders(DOMAIN m)}}

\* The loop body of MapAsPrettyString from the i-th key of the range on.
MapEntries(m, o, i) ==
    IF i > Len(o) THEN {<<>>}
    ELSE {(IF i > 1 THEN <<",", " ">> ELSE <<>>) \o o[i] \o <<":", " ">>
              \o x \o rest :
            x \in ValueAsString(m[o[i]]), rest \in MapEntries(m, o, i + 1)}

ValueAsString(v) ==
    CASE v.kind = "string" -> {Quoted(v.s)}
      [] v.kind \in {"int", "bool"} -> {FmtV(v)}
      [] v.kind = "map" -> MapAsPrettyString(v.m, <<>>)
      [] OTHER -> {FmtV(v)}

\* The list index written from 0.
IndexedFromZero(i, v) == FormatInt(i - 1) \o <<":", " ">> \o Quoted(v)

\* fmt.Sprintf("%d: \"%s\"", i+1, v), i the 0-based index; here i is the
\* 1-based position of v.
Indexed(i, v) == FormatInt(i) \o <<":", " ">> \o Quoted(v)

\* The loop of ListAsPrettyString from the i-th element on.
RECURSIVE ListItems(_, _)
ListItems(list, i) ==
    IF i > Len(list) THEN <<>>
    ELSE (IF i > 1 THEN <<",", " ">> ELSE <<>>) \o Quoted(list[i])
             \o ListItems(list, i + 1)

ListAsPrettyString(list, beforeMessage) ==
    Prepend(beforeMessage, <<"[">> \o ListItems(list, 1) \o <<"]">>)

RECURSIVE IndexedItems(_, _)
IndexedItems(list, i) ==
    IF i > Len(list) THEN <<>>
    ELSE (IF i > 1 THEN <<",", " ">> ELSE <<>>) \o Indexed(i, list[i])
             \o IndexedItems(list, i + 1)

ListAsPrettyStringWithIndex(list, beforeMessage) ==
    Prepend(beforeMessage, <<"[">> \o IndexedItems(list, 1) \o <<"]">>)

\* fmt.Printf of one line: the text and a line break.
PrintLine(text) == text \o <<"\n">>

\* PrintMapWithIndent(m, indent): the texts a call may write (each range
\* over the keys may take any order; the keys are then sorted).
RECURSIVE PrintMapWithIndent(_, _), PrintKeys(_, _, _, _), PrintKey(_, _, _),
          PrintItems(_, _, _)
PrintMapWithIndent(m, indent) ==
    UNION {PrintKeys(m, indent, SortStrings(o), 1) : o \in Orders(DOMAIN m)}

PrintKeys(m, indent, keys, i) ==
    IF i > Len(keys) THEN {<<>>}
    ELSE {x \o rest : x \in PrintKey(m, indent, keys[i]),
                      rest \in PrintKeys(m, indent, keys, i + 1)}

PrintKey(m, indent, k) ==
    LET v == m[k]
    IN  CASE v.kind = "map" ->
                 {PrintLine(indent \o k \o <<":", " ", "{">>) \o body
                      \o PrintLine(indent \o <<"}">>) :
                    body \in PrintMapWithIndent(v.m, indent \o <<" ", " ">>)}
          [] v.kind = "list" ->
                 {PrintLine(indent \o k \o <<":", " ", "[">>) \o items
                      \o PrintLine(indent \o <<"]">>) :
                    items \in PrintItems(v.items, indent, 1)}
          [] OTHER -> {PrintLine(indent \o k \o <<":", " ">> \o FmtV(v))}

\* The loop over the elements of a list with the labels counted from 1.
PrintItemsFromOne(items, indent, i) ==
    IF i > Len(items) THEN {<<>>}
    ELSE LET item == items[i]
             label == indent \o <<" ", " ", "[">> \o FormatInt(i)
                          \o <<"]", ":", " ">>
             this ==
                 IF item.kind = "map"
                 THEN {PrintLine(label \o <<"{">>) \o body
                           \o PrintLine(indent \o <<" ", " ", "}">>) :
                         body \in PrintMapWithIndent(
                                      item.m, indent \o <<" ", " ", " ", " ">>)}
                 ELSE {PrintLine(label \o FmtV(item))}
         IN  {x \o rest : x \in this, rest \in PrintItems(items, indent, i + 1)}

\* The loop over the elements of a list, from the i-th on (index i - 1).
PrintItems(items, indent, i) ==
    IF i > Len(items) THEN {<<>>}
    ELSE LET item == items[i]
             label == indent \o <<" ", " ", "[">> \o FormatInt(i - 1)
                          \o <<"]", ":", " ">>
             this ==
                 IF item.kind = "map"
                 THEN {PrintLine(label \o <<"{">>) \o body
                           \o PrintLine(indent \o <<" ", " ", "}">>) :
                         body \in PrintMapWithIndent(
                                      item.m, indent \o <<" ", " ", " ", " ">>)}
                 ELSE {PrintLine(label \o FmtV(item))}
         IN  {x \o rest : x \in this, rest \in PrintItems(items, indent, i + 1)}


\* PrintMap(m): the texts a call may write; the range is not sorted and a
\* nested map is written with no indentation.
RECURSIVE PrintMap(_), PrintMapEntries(_, _, _)
PrintMap(m) == UNION {PrintMapEntries(m, o, 1) : o \in Orders(DOMAIN m)}

PrintMapEntries(m, o, i) ==
    IF i > Len(o) THEN {<<>>}
    ELSE LET v == m[o[i]]
             this ==
                 IF v.kind = "map"
                 THEN {PrintLine(o[i] \o <<":", " ", "{">>) \o body
                           \o PrintLine(<<"}">>) : body \in PrintMap(v.m)}
                 ELSE {PrintLine(o[i] \o <<":", " ">> \o FmtV(v))}
         IN  {x \o rest : x \in this, rest \in PrintMapEntries(m, o, i + 1)}

\* The values handed to PrintStruct and ConvertStructToMap: a struct with
\* its exported fields, a channel, a plain number, and nil.
StructV(fields) == [kind |-> "struct", fields |-> fields]
ChanV == [kind |-> "chan"]
NilV == [kind |-> "nil"]

\* A nil error, and the errors of encoding/json.
NoError == <<>>
UnsupportedTypeError == <<"json: unsupported type: chan int">>
UnmarshalTypeError ==
    <<"json: cannot unmarshal number into Go value of type map[string]interface {}">>

\* json.Marshal of a value held by a field: the JSON document tree.
RECURSIVE ToJSON(_)
ToJSON(v) ==
    CASE v.kind = "string" -> [type |-> "string", s |-> v.s]
      [] v.kind = "int" -> [type |-> "number", n |-> v.n]
      [] v.kind = "bool" -> [type |-> "bool", b |-> v.b]
      [] v.kind = "map" ->
             [type |-> "object", members |-> [k \in DOMAIN v.m |-> ToJSON(v.m[k])]]
      [] v.kind = "list" ->
             [type |-> "array",
              elems |-> [i \in 1..Len(v.items) |-> ToJSON(v.items[i])]]

\* json.Marshal(data)
Marshal(data) ==
    CASE data.kind = "struct" ->
             [err |-> NoError, jsonData |-> ToJSON(MapV(data.fields))]
      [] data.kind = "int" ->
             [err |-> NoError, jsonData |-> ToJSON(data)]
      [] data.kind = "nil" ->
             [err |-> NoError, jsonData |-> [type |-> "null"]]
      [] data.kind = "chan" ->
             [err |-> UnsupportedTypeError, jsonData |-> [type |-> "null"]]

\* What json.Unmarshal stores in an interface{}: a number as a float64
\* (printed by %v like the integer it holds), an object as a
\* map[string]interface{}, an array as a []interface{}.
RECURSIVE FromJSON(_)
FromJSON(j) ==
    CASE j.type = "string" -> StrV(j.s)
      [] j.type = "number" -> IntV(j.n)
      [] j.type = "bool" -> BoolV(j.b)
      [] j.type = "object" ->
             MapV([k \in DOMAIN j.members |-> FromJSON(j.members[k])])
      [] j.type = "array" ->
             ListV([i \in 1..Len(j.elems) |-> FromJSON(j.elems[i])])

\* json.Unmarshal(jsonData, &result) with result a nil
\* map[string]interface{}: null leaves it nil, an object fills it, anything
\* else is an error and leaves it nil.
UnmarshalMap(jsonData) ==
    CASE jsonData.type = "object" ->
             [err |-> NoError, isNil |-> FALSE, m |-> FromJSON(jsonData).m]
      [] jsonData.type = "null" -> [err |-> NoError, isNil |-> TRUE, m |-> <<>>]
      [] OTHER -> [err |-> UnmarshalTypeError, isNil |-> TRUE, m |-> <<>>]

\* ConvertStructToMap(data): the map (isNil when it is the nil map) and the
\* error.
ConvertStructToMap(data) ==
    LET marshalled == Marshal(data)
    IN  IF marshalled.err /= NoError
        THEN [isNil |-> TRUE, m |-> <<>>, err |-> marshalled.err]
        ELSE LET unmarshalled == UnmarshalMap(marshalled.jsonData)
             IN  IF unmarshalled.err /= NoError
                 THEN [isNil |-> TRUE, m |-> <<>>, err |-> unmarshalled.err]
                 ELSE [isNil |-> unmarshalled.isNil, m |-> unmarshalled.m,
                       err |-> NoError]

\* fmt.Println("Error converting struct to map:", err)
ErrorNotice(err) ==
    PrintLine(<<"Error converting struct to map:", " ">> \o err)

\* PrintStruct without the return after the error notice.
PrintStructNoReturn(data) ==
    LET converted == ConvertStructToMap(data)
    IN  IF converted.err /= NoError
        THEN [outs |-> {ErrorNotice(converted.err) \o out :
                          out \in PrintMap(converted.m)},
              calls |-> <<"ConvertStructToMap", "Println", "PrintMap">>]
        ELSE [outs |-> PrintMap(converted.m),
              calls |-> <<"ConvertStructToMap", "PrintMap">>]

\* PrintStruct(data): the texts a call may write and the calls it makes.
PrintStruct(data) ==
    LET converted == ConvertStructToMap(data)
    IN  IF converted.err /= NoError
        THEN [outs |-> {ErrorNotice(converted.err)},
              calls |-> <<"ConvertStructToMap", "Println">>]
        ELSE [outs |-> PrintMap(converted.m),
              calls |-> <<"ConvertStructToMap", "PrintMap">>]


(***************************************************************************)
(* The inputs of the structured-data calls.                                *)
(***************************************************************************)
KeySet == {<<"a">>, <<"a", "b">>, <<"b">>, <<"Z">>}

NestedMap ==
    (<<"b">> :> StrV(<<"y">>))
        @@ (<<"a">> :> MapV((<<"k">> :> IntV(-7)) @@ (<<"c">> :> StrV(<<"w">>))))

ElementMap == (<<"b">> :> BoolV(FALSE)) @@ (<<"Z">> :> StrV(<<"v">>))

\* The values a key of an input map may hold.
ValuePool ==
    {StrV(<<"J">>), IntV(30), BoolV(TRUE), MapV(NestedMap),
     ListV(<<IntV(95), StrV(<<"s">>)>>),
     ListV(<<MapV(ElementMap), IntV(12)>>)}

Maps ==
    UNION {[K -> ValuePool] : K \in {S \in SUBSET KeySet : Cardinality(S) <= MaxKeys}}

ListElems == {<<"x">>, <<"p", "q">>}
Lists == SeqsUpTo(ListElems, MaxListLen)

\* The variadic beforeMessage argument; '#' occurs in no key and no value.
Fragment1 == <<"U", "#">>
Fragment2 == <<"V", "#">>
BeforeArgs ==
    {<<>>, <<Fragment1>>, <<Fragment1, Fragment2>>, <<Fragment2, Fragment1>>,
     << <<>> >>}

Indents == {<<>>, <<" ", " ">>}

\* The fields of the structs handed to PrintStruct.
StructFields ==
    {m \in Maps : Cardinality(DOMAIN m) <= 1} \cup {NestedMap, ElementMap}

StructArgs ==
    {StructV(fields) : fields \in StructFields} \cup {ChanV, IntV(5), NilV}

MapAsPrettyStringCall ==
    /\ Idle
    /\ \E m \in Maps, beforeMessage \in BeforeArgs :
          \E result \in MapAsPrettyString(m, beforeMessage) :
              call' = [op |-> "MapAsPrettyString", m |-> m,
                       beforeMessage |-> beforeMessage, result |-> result]
    /\ written' = <<>>
    /\ UNCHANGED <<loggers, crashed>>

ValueAsStringCall ==
    /\ Idle
    /\ \E v \in ValuePool :
          \E result \in ValueAsString(v) :
              call' = [op |-> "ValueAsString", v |-> v, result |-> result]
    /\ written' = <<>>
    /\ UNCHANGED <<loggers, crashed>>

ListAsPrettyStringCall ==
    /\ Idle
    /\ \E list \in Lists, beforeMessage \in BeforeArgs :
          call' = [op |-> "ListAsPrettyString", list |-> list,
                   beforeMessage |-> beforeMessage,
                   result |-> ListAsPrettyString(list, beforeMessage)]
    /\ written' = <<>>
    /\ UNCHANGED <<loggers, crashed>>

ListAsPrettyStringWithIndexCall ==
    /\ Idle
    /\ \E list \in Lists, beforeMessage \in BeforeArgs :
          call' = [op |-> "ListAsPrettyStringWithIndex", list |-> list,
                   beforeMessage |-> beforeMessage,
                   result |-> ListAsPrettyStringWithIndex(list, beforeMessage)]
    /\ written' = <<>>
    /\ UNCHANGED <<loggers, crashed>>

PrintMapWithIndentCall ==
    /\ Idle
    /\ \E m \in Maps, indent \in Indents :
          \E out \in PrintMapWithIndent(m, indent) :
              /\ call' = [op |-> "PrintMapWithIndent", m |-> m, indent |-> indent]
              /\ written' = out
    /\ UNCHANGED <<loggers, crashed>>

ConvertStructToMapCall ==
    /\ Idle
    /\ \E data \in StructArgs :
          call' = [op |-> "ConvertStructToMap", data |-> data,
                   result |-> ConvertStructToMap(data)]
    /\ written' = <<>>
    /\ UNCHANGED <<loggers, crashed>>

PrintStructCall ==
    /\ Idle
    /\ \E data \in StructArgs :
          LET run == PrintStruct(data)
          IN  \E out \in run.outs :
                  /\ call' = [op |-> "PrintStruct", data |-> data,
                              calls |-> run.calls]
                  /\ written' = out
    /\ UNCHANGED <<loggers, crashed>>

NextData ==
    \/ Return
    \/ MapAsPrettyStringCall
    \/ ValueAsStringCall
    \/ ListAsPrettyStringCall
    \/ ListAsPrettyStringWithIndexCall
    \/ PrintMapWithIndentCall
    \/ ConvertStructToMapCall
    \/ PrintStructCall

SpecData == Init /\ [][NextData]_vars


(***************************************************************************)
(* What the claims about the structured-data helpers read from a state.    *)
(***************************************************************************)
\* s holds sub as a contiguous part.
Contains(s, sub) ==
    \E i \in 1..(Len(s) - Len(sub) + 1) : SubSeq(s, i, i + Len(sub) - 1) = sub

\* The number of occurrences of character c in s.
Count(s, c) == Len(SelectSeq(s, LAMBDA x : x = c))

\* The maps inside a value, itself included.
RECURSIVE AllMaps(_)
AllMaps(v) ==
    CASE v.kind = "map" ->
             {v.m} \cup UNION {AllMaps(v.m[k]) : k \in DOMAIN v.m}
      [] v.kind = "list" ->
             UNION {AllMaps(v.items[i]) : i \in DOMAIN v.items}
      [] OTHER -> {}

\* The number of text scalars in a value; with viaLists FALSE those inside
\* a list are left out.
RECURSIVE TextCount(_, _), TextCountSeq(_, _)
TextCount(v, viaLists) ==
    CASE v.kind = "string" -> 1
      [] v.kind = "map" ->
             TextCountSeq([i \in 1..Cardinality(DOMAIN v.m) |->
                              v.m[FmtKeys(v.m)[i]]], viaLists)
      [] v.kind = "list" ->
             IF viaLists THEN TextCountSeq(v.items, viaLists) ELSE 0
      [] OTHER -> 0

TextCountSeq(vs, viaLists) ==
    IF vs = <<>> THEN 0
    ELSE TextCount(Head(vs), viaLists) + TextCountSeq(Tail(vs), viaLists)

\* Byte-wise order of two keys, by the first position where they differ.
KeyBefore(x, y) ==
    \E i \in 1..(Len(y)) :
        /\ \A j \in 1..(i - 1) : j <= Len(x) /\ ByteOf(x[j]) = ByteOf(y[j])
        /\ \/ i = Len(x) + 1
           \/ i <= Len(x) /\ ByteOf(x[i]) < ByteOf(y[i])

\* The parts with ", " between them.
RECURSIVE Joined(_)
Joined(parts) ==
    IF parts = <<>> THEN <<>>
    ELSE IF Len(parts) = 1 THEN parts[1]
    ELSE Joined(SubSeq(parts, 1, Len(parts) - 1)) \o <<",", " ">>
             \o parts[Len(parts)]

\* C4: MapAsPrettyString is deterministic: a call on a mapping returns the
\* one string every call on an equal mapping returns (its pairs in one
\* fixed order).
C4_MapAsPrettyStringDeterministic ==
    call.op = "MapAsPrettyString" =>
        MapAsPrettyString(call.m, call.beforeMessage) = {call.result}

\* C5: PrintMapWithIndent visits the keys of the top-level mapping and of
\* every nested mapping (those inside a sequence included) in ascending
\* byte-wise order, whatever order the range over the mapping takes, so
\* what it writes is the same for every iteration order.
C5_SortedTraversal ==
    call.op = "PrintMapWithIndent" =>
        /\ PrintMapWithIndent(call.m, call.indent) = {written}
        /\ \A mp \in AllMaps(MapV(call.m)) :
               \A o \in Orders(DOMAIN mp) :
                   LET keys == SortStrings(o)
                   IN  /\ Len(keys) = Cardinality(DOMAIN mp)
                       /\ {keys[i] : i \in DOMAIN keys} = DOMAIN mp
                       /\ \A i \in 1..(Len(keys) - 1) :
                              KeyBefore(keys[i], keys[i + 1])

\* A map of two keys, one of them a prefix of the other, that holds a list
\* with a map in it.
C5_Witness ==
    /\ call.op = "PrintMapWithIndent"
    /\ DOMAIN call.m = {<<"a">>, <<"a", "b">>}
    /\ call.m[<<"a">>].kind = "list"
    /\ call.m[<<"a">>].items[1].kind = "map"
    /\ call.m[<<"a", "b">>].kind = "map"
    /\ written /= <<>>

\* C6 as stated: in both renderers every text scalar that reaches the
\* output (a direct value, a value in a nested mapping, an element of a
\* sequence) is wrapped in double quotes, and nothing else is.
C6_QuotedEverywhere ==
    /\ call.op = "MapAsPrettyString" =>
           Count(call.result, "\"") = 2 * TextCount(MapV(call.m), TRUE)
    /\ call.op = "ValueAsString" =>
           Count(call.result, "\"") = 2 * TextCount(call.v, TRUE)
    /\ call.op = "PrintMapWithIndent" =>
           Count(written, "\"") = 2 * TextCount(MapV(call.m), TRUE)

\* C6 amended: MapAsPrettyString and ValueAsString wrap in double quotes
\* every text scalar that is a direct value of a key or a value in a nested
\* mapping, and quote nothing else (no number, no boolean, no element of a
\* sequence); PrintMapWithIndent writes every scalar, text included, in its
\* default form without quotes.
C6_QuotedInFlatMapsOnly ==
    /\ call.op = "MapAsPrettyString" =>
           /\ Count(call.result, "\"") = 2 * TextCount(MapV(call.m), FALSE)
           /\ \A k \in DOMAIN call.m :
                  LET v == call.m[k]
                  IN  /\ v.kind = "string" =>
                             Contains(call.result,
                                      k \o <<":", " ", "\"">> \o v.s \o <<"\"">>)
                      /\ v.kind = "int" =>
                             Contains(call.result,
                                      k \o <<":", " ">> \o FormatInt(v.n))
                      /\ v.kind = "bool" =>
                             Contains(call.result, k \o <<":", " ">> \o FmtV(v))
    /\ call.op = "ValueAsString" =>
           /\ Count(call.result, "\"") = 2 * TextCount(call.v, FALSE)
           /\ call.v.kind = "string" =>
                  call.result = <<"\"">> \o call.v.s \o <<"\"">>
    /\ call.op = "PrintMapWithIndent" =>
           /\ Count(written, "\"") = 0
           /\ \A k \in DOMAIN call.m :
                  LET v == call.m[k]
                  IN  v.kind = "string" =>
                          Contains(written,
                                   call.indent \o k \o <<":", " ">> \o v.s
                                       \o <<"\n">>)

\* A flat rendering that quotes a text value of a key and leaves the text
\* element of a list bare.
C6_Witness ==
    /\ call.op = "MapAsPrettyString"
    /\ TextCount(MapV(call.m), FALSE) >= 1
    /\ TextCount(MapV(call.m), TRUE) > TextCount(MapV(call.m), FALSE)
    /\ Count(call.result, "\"") >= 2

\* C7: ListAsPrettyString returns '[' + the elements each in double quotes,
\* in list order, joined by ', ' + ']' ('[]' for the empty list), and
\* ListAsPrettyStringWithIndex the same with each quoted element prefixed by
\* its 1-based position and ': '.
C7_ListRendering ==
    /\ (call.op = "ListAsPrettyString" /\ call.beforeMessage = <<>>) =>
           call.result =
               <<"[">>
                   \o Joined([i \in 1..Len(call.list) |->
                                 <<"\"">> \o call.list[i] \o <<"\"">>])
                   \o <<"]">>
    /\ (call.op = "ListAsPrettyStringWithIndex" /\ call.beforeMessage = <<>>) =>
           call.result =
               <<"[">>
                   \o Joined([i \in 1..Len(call.list) |->
                                 FormatInt(i) \o <<":", " ", "\"">>
                                     \o call.list[i] \o <<"\"">>])
                   \o <<"]">>

\* An indexed rendering of a list of three elements.
C7_Witness ==
    /\ call.op = "ListAsPrettyStringWithIndex"
    /\ call.beforeMessage = <<>>
    /\ Len(call.list) = 3
    /\ call.list[1] /= call.list[2]
    /\ Contains(call.result, <<"3", ":", " ", "\"">>)

\* The renderings of the call's structure with no leading fragment.
BareRenderings ==
    CASE call.op = "MapAsPrettyString" -> MapAsPrettyString(call.m, <<>>)
      [] call.op = "ListAsPrettyString" -> {ListAsPrettyString(call.list, <<>>)}
      [] call.op = "ListAsPrettyStringWithIndex" ->
             {ListAsPrettyStringWithIndex(call.list, <<>>)}

\* C8: MapAsPrettyString, ListAsPrettyString and
\* ListAsPrettyStringWithIndex return the structural rendering alone when no
\* fragment is given, and the first fragment, one space and the rendering
\* when one or more are given; further fragments are ignored and the
\* fragment occurs once, at the start, never inside a nested mapping.
C8_FirstFragmentOnly ==
    call.op \in {"MapAsPrettyString", "ListAsPrettyString",
                 "ListAsPrettyStringWithIndex"} =>
        LET bm == call.beforeMessage
        IN  /\ Len(bm) = 0 => call.result \in BareRenderings
            /\ Len(bm) > 0 =>
                   \E r \in BareRenderings : call.result = bm[1] \o <<" ">> \o r
            /\ Count(call.result, "#") =
                   (IF Len(bm) > 0 THEN Count(bm[1], "#") ELSE 0)

\* Two fragments given to a map that holds a nested map.
C8_Witness ==
    /\ call.op = "MapAsPrettyString"
    /\ call.beforeMessage = <<Fragment2, Fragment1>>
    /\ \E k \in DOMAIN call.m : call.m[k].kind = "map"
    /\ SubSeq(call.result, 1, 3) = <<"V", "#", " ">>


(***************************************************************************)
(* The global functions and the default logger; repeated calls.            *)
(***************************************************************************)
\* The style of each category.
CategoryStyle(op) ==
    CASE op = "Warning" -> warningColor
      [] op = "Message" -> messageColor
      [] op = "Info" -> infoColor
      [] op = "Error" -> errorColor
      [] op = "Success" -> successColor
      [] op = "Ongoing" -> ongoingColor

\* C9: after any sequence of calls, a global function Warning, Message,
\* Info, Error, Success or Ongoing writes exactly what the same-named method
\* of a Logger with showTimestamp = true and padding = 1 writes for the same
\* arguments (that category's style, the first tag only, the empty tag when
\* none is given), and no logging call changes the showTimestamp or the
\* padding of the default logger or of any other Logger.
C9_GlobalsUseDefaultLogger ==
    [][call'.op \in LogOps =>
          /\ loggers' = loggers
          /\ loggers'["DefaultLogger"] = [showTimestamp |-> TRUE, padding |-> 1]
          /\ call'.via = "global" =>
                 LET box == formatBox([showTimestamp |-> TRUE, padding |-> 1],
                                      call'.message,
                                      IF call'.tag = <<>> THEN <<>>
                                      ELSE Head(call'.tag),
                                      CategoryStyle(call'.op), call'.now)
                 IN  /\ call'.logger = "DefaultLogger"
                     /\ call'.panic = box.panic
                     /\ written' = IF box.panic THEN <<>>
                                   ELSE box.text \o <<"\n">>]_vars

\* A global function, called with two tags after a custom logger was built,
\* wrote a box.
C9_Witness ==
    /\ call.op = "Error"
    /\ call.via = "global"
    /\ Len(call.tag) = 2
    /\ ~call.panic
    /\ "custom" \in DOMAIN loggers
    /\ Contains(written, <<" ", tagColor, "T", "T", EscReset, " ">>)

\* s is a time of day written HH:MM:SS.
IsClock(s) ==
    /\ Len(s) = 8
    /\ s[3] = ":"
    /\ s[6] = ":"
    /\ \A i \in {1, 2, 4, 5, 7, 8} : \E d \in 0..9 : s[i] = Digit(d)

\* Where the timestamp starts in what a call wrote: after the first line,
\* the line's escape sequence, the border and the left padding.
TimestampStart(l) == IndexOf(written, "\n", 1) + 3 + l.padding

\* C10: with showTimestamp = false a call with the same message, tag, style
\* and padding returns the same string at every instant; with showTimestamp
\* = true, calls at different instants return strings of the same length
\* that differ only inside the 8-character HH:MM:SS timestamp.
C10_OnlyTimestampVaries ==
    (IsLogCall /\ ~call.panic) =>
        LET l == loggers[call.logger]
        IN  \A t \in Instants :
                LET other == formatBox(l, call.message, TagStr(call.tag),
                                       CategoryStyle(call.op), t)
                    text == other.text \o <<"\n">>
                    start == TimestampStart(l)
                IN  /\ ~other.panic
                    /\ Len(text) = Len(written)
                    /\ ~l.showTimestamp => text = written
                    /\ l.showTimestamp =>
                           /\ IsClock(SubSeq(written, start, start + 7))
                           /\ IsClock(SubSeq(text, start, start + 7))
                           /\ \A i \in 1..Len(written) :
                                  text[i] /= written[i] =>
                                      i \in start..(start + 7)

\* A box with a timestamp, which a call at another instant would write with
\* another timestamp.
C10_Witness ==
    /\ IsLogCall
    /\ ~call.panic
    /\ loggers[call.logger].showTimestamp
    /\ call.now = 3723
    /\ Contains(written, <<"0", "1", ":", "0", "2", ":", "0", "3">>)
    /\ formatBox(loggers[call.logger], call.message, TagStr(call.tag),
                 CategoryStyle(call.op), 86399).text \o <<"\n">> /= written


(***************************************************************************)
(* Claims about PrintStruct and ConvertStructToMap.                        *)
(***************************************************************************)
\* json.Marshal or json.Unmarshal fails on data.
ConversionFails(data) ==
    \/ Marshal(data).err /= NoError
    \/ UnmarshalMap(Marshal(data).jsonData).err /= NoError

\* C11: when the conversion fails (json.Marshal or json.Unmarshal returns an
\* error), ConvertStructToMap returns the nil map together with that error,
\* and PrintStruct converts once, writes the error notice and nothing else,
\* and does not call PrintMap: no key/value line is written.
C11_FailedConversionPrintsOnlyNotice ==
    /\ (call.op = "ConvertStructToMap" /\ ConversionFails(call.data)) =>
           /\ call.result.isNil
           /\ call.result.m = <<>>
           /\ call.result.err \in {UnsupportedTypeError, UnmarshalTypeError}
    /\ (call.op = "ConvertStructToMap" /\ ~ConversionFails(call.data)) =>
           call.result.err = NoError
    /\ (call.op = "PrintStruct" /\ ConversionFails(call.data)) =>
           /\ call.calls = <<"ConvertStructToMap", "Println">>
           /\ \E err \in {UnsupportedTypeError, UnmarshalTypeError} :
                  written = <<"Error converting struct to map:", " ">> \o err
                                \o <<"\n">>
           /\ Count(written, "\n") = 1
           /\ ~Contains(written, <<":", " ">>)

\* PrintStruct was called on a value whose conversion fails at json.Unmarshal.
C11_Witness ==
    /\ call.op = "PrintStruct"
    /\ call.data = IntV(5)
    /\ Marshal(call.data).err = NoError
    /\ written /= <<>>

(***************************************************************************)
(* Claims about the box formatBox returns.                                 *)
(***************************************************************************)
\* The position of the n-th line break of s.
NthBreak(s, n) ==
    LET breaks == {i \in 1..Len(s) : s[i] = "\n"}
    IN  CHOOSE i \in breaks : Cardinality({j \in breaks : j < i}) = n - 1

\* The n-th line of s: what stands between its (n-1)-th and n-th line break.
NthLine(s, n) ==
    LET from == IF n = 1 THEN 1 ELSE NthBreak(s, n - 1) + 1
        to == IF n > Count(s, "\n") THEN Len(s) ELSE NthBreak(s, n) - 1
    IN  SubSeq(s, from, to)

Spaces(n) == [i \in 1..n |-> " "]

\* What formatBox returned to a logging call: what the call wrote without
\* the line break Println adds.
Returned == SubSeq(written, 1, Len(written) - 1)

\* C12: whenever formatBox returns, its result is, in this order, the top
\* border, the timestamp line iff showTimestamp, one line per line of the
\* message in the message's order (k line breaks give k + 1 message lines,
\* the empty message one empty message line) and the bottom border, with
\* one line break between consecutive lines and nothing after the bottom
\* border.
C12_BoxLineOrder ==
    (IsLogCall /\ ~call.panic) =>
        LET l == loggers[call.logger]
            k == Count(call.message, "\n")
            stamp == IF l.showTimestamp THEN 1 ELSE 0
            n == 1 + stamp + (k + 1) + 1
            top == Visible(NthLine(Returned, 1))
            bottom == Visible(NthLine(Returned, n))
        IN  /\ written = Returned \o <<"\n">>
            /\ Count(Returned, "\n") = n - 1
            /\ Head(top) = topLeft /\ top[Len(top)] = topRight
            /\ l.showTimestamp =>
                   LET line == Visible(NthLine(Returned, 2))
                   IN  /\ Head(line) = vertical /\ line[Len(line)] = vertical
                       /\ IsClock(SubSeq(line, 2 + l.padding, 9 + l.padding))
            /\ \A j \in 1..(k + 1) :
                   LET line == Visible(NthLine(Returned, 1 + stamp + j))
                       text == NthLine(call.message, j)
                   IN  /\ Len(line) >= l.padding + Len(text) + 2
                       /\ line = <<vertical>> \o Spaces(l.padding) \o text
                                     \o Spaces(Len(line) - l.padding - Len(text) - 2)
                                     \o <<vertical>>
            /\ Head(bottom) = bottomLeft /\ bottom[Len(bottom)] = bottomRight
            /\ Returned[Len(Returned)] = EscReset
            /\ Returned[Len(Returned) - 1] = bottomRight

\* A box with a timestamp for a message of two lines, the second one empty.
C12_Witness ==
    /\ IsLogCall
    /\ ~call.panic
    /\ loggers[call.logger].showTimestamp
    /\ call.message = <<"a", "\n">>
    /\ Count(written, "\n") = 5

\* A box for the empty message.
C12_WitnessEmptyMessage ==
    /\ IsLogCall
    /\ ~call.panic
    /\ call.message = <<>>
    /\ Count(written, "\n") = 3

\* The number of characters of the longest of the first n lines of message.
RECURSIVE LongestChars(_, _)
LongestChars(message, n) ==
    IF n = 0 THEN 0
    ELSE LET rest == LongestChars(message, n - 1)
             this == Len(NthLine(message, n))
         IN  IF this > rest THEN this ELSE rest

Horizontals(n) == [i \in 1..n |-> horizontal]

\* The two borders of the box a call wrote are as C13 describes them, with
\* the length of a line and of the tag counted in characters.
BordersAsDescribed ==
    LET l == loggers[call.logger]
        tag == IF call.tag = <<>> THEN <<>> ELSE Head(call.tag)
        longest == LongestChars(call.message, Count(call.message, "\n") + 1)
        M == (IF tag /= <<>> /\ Len(tag) + 4 > longest
              THEN Len(tag) + 4 ELSE longest) + 2 * l.padding
        top == NthLine(Returned, 1)
        bottom == NthLine(Returned, Count(Returned, "\n") + 1)
    IN  /\ Visible(top) =
               <<topLeft>>
                   \o (IF tag /= <<>> THEN <<" ">> \o tag \o <<" ">> ELSE <<>>)
                   \o Horizontals(M) \o <<topRight>>
        /\ tag /= <<>> =>
               /\ Contains(top, <<topLeft, " ", tagColor>> \o tag
                                    \o <<EscReset, " ", horizontal>>)
               /\ Len(Visible(top)) = Len(Visible(bottom)) + Len(tag) + 2
               /\ ~Contains(bottom, tag)
               /\ Count(bottom, tagColor) = 0
        /\ tag = <<>> =>
               /\ Len(Visible(top)) = Len(Visible(bottom))
               /\ Count(top, " ") = 0
               /\ Count(top, tagColor) = 0
        /\ Visible(bottom) = <<bottomLeft>> \o Horizontals(M) \o <<bottomRight>>

\* C13: with M = max(length of the longest message line, length(tag) + 4
\* when the tag is non-empty) + 2*padding, the top border is the left
\* corner, then only for a non-empty tag a space, the tag in the tag style
\* and a space, then exactly M horizontal characters and the right corner,
\* so it is length(tag) + 2 characters longer than the bottom border when
\* there is a tag; the bottom border is its corner, exactly M horizontal
\* characters and its corner, without the tag; an empty tag gives the box of
\* an absent tag.
C13_TopAndBottomBorder ==
    (IsLogCall /\ ~call.panic) => BordersAsDescribed

\* The borders are as described whenever the message is made of one-byte
\* characters, where the character count of a line is its byte count.
BordersOfOneByteMessages ==
    (IsLogCall /\ ~call.panic /\ Count(call.message, eAcute) = 0) =>
        BordersAsDescribed

\* C14: whenever formatBox returns a box for a message made of one-byte
\* characters, with or without tag and timestamp, all interior lines (the
\* timestamp line and every message line) have the same total length; each
\* message line is the vertical border, padding spaces, the literal text,
\* right-padding spaces and the closing vertical border, with a
\* right-padding count of at least 2*padding: no message line is truncated
\* or longer than the others.
C14_InteriorLinesEqualLength ==
    (IsLogCall /\ ~call.panic /\ Count(call.message, eAcute) = 0) =>
        LET l == loggers[call.logger]
            k == Count(call.message, "\n")
            stamp == IF l.showTimestamp THEN 1 ELSE 0
            n == 1 + stamp + (k + 1) + 1
            width == Len(Visible(NthLine(Returned, 2)))
        IN  /\ \A i \in 2..(n - 1) : Len(Visible(NthLine(Returned, i))) = width
            /\ \A j \in 1..(k + 1) :
                   LET line == Visible(NthLine(Returned, 1 + stamp + j))
                       text == NthLine(call.message, j)
                       rightPad == Len(line) - l.padding - Len(text) - 2
                   IN  /\ rightPad >= 2 * l.padding
                       /\ line = <<vertical>> \o Spaces(l.padding) \o text
                                     \o Spaces(rightPad) \o <<vertical>>

\* A tagged box with a timestamp for a message of one-byte characters whose
\* two lines differ in length.
C14_Witness ==
    /\ IsLogCall
    /\ ~call.panic
    /\ loggers[call.logger].showTimestamp
    /\ call.message = <<"\n", "a">>
    /\ call.tag /= <<>>
    /\ Contains(written, <<"0", "1", ":", "0", "2", ":", "0", "3">>)
    /\ Len(NthLine(call.message, 1)) < Len(NthLine(call.message, 2))

\* s with each multi-byte character replaced by a one-byte character.
OneByte(s) == [i \in 1..Len(s) |-> IF s[i] = eAcute THEN "a" ELSE s[i]]

\* C15: formatBox computes the content width from the number of characters
\* of each message line and of the tag, not from their byte counts: a
\* message with multi-byte characters gets the box width, and each of its
\* lines the number of right-padding spaces, of the message with one-byte
\* characters in their place.
C15_WidthFromCharacters ==
    IsLogCall =>
        LET l == loggers[call.logger]
            tag == TagStr(call.tag)
            lines == Split(call.message, "\n")
            plain == Split(OneByte(call.message), "\n")
            box == formatBox(l, OneByte(call.message), tag,
                             CategoryStyle(call.op), call.now)
        IN  /\ BoxWidth(l, call.message, tag) = BoxWidth(l, OneByte(call.message), tag)
            /\ Len(lines) = Len(plain)
            /\ \A i \in 1..Len(lines) :
                   LinePad(BoxWidth(l, call.message, tag), lines[i])
                       = LinePad(BoxWidth(l, OneByte(call.message), tag), plain[i])
            /\ call.panic = box.panic
            /\ ~call.panic =>
                   Count(written, horizontal) = Count(box.text, horizontal)

(***************************************************************************)
(* Claims about the outline PrintMapWithIndent writes.                     *)
(***************************************************************************)
\* The number of spaces a line starts with.
RECURSIVE LeadingSpaces(_)
LeadingSpaces(line) ==
    IF line = <<>> \/ Head(line) /= " " THEN 0
    ELSE 1 + LeadingSpaces(Tail(line))

\* A line that ends with ': {' or ': [' opens a block.
IsOpening(line) ==
    /\ Len(line) >= 3
    /\ SubSeq(line, Len(line) - 2, Len(line))
           \in {<<":", " ", "{">>, <<":", " ", "[">>}

\* s starts with prefix.
StartsWith(s, prefix) ==
    Len(s) >= Len(prefix) /\ SubSeq(s, 1, Len(prefix)) = prefix

\* The lines of text from the i-th to the n-th form a well-nested outline
\* inside the blocks of open (innermost last; each with the indentation of
\* its opening line, its closing character and, for a sequence, the index of
\* its next element): a closing line closes the innermost block at the
\* indentation of its opening line, every other line stands exactly two
\* spaces deeper than the opening line of the innermost block (at base
\* outside every block), and the lines directly inside a sequence are
\* labelled [0], [1], ... in this order.
RECURSIVE Outline(_, _, _, _, _)
Outline(text, i, n, open, base) ==
    IF i > n THEN open = <<>>
    ELSE LET line == NthLine(text, i)
             at == LeadingSpaces(line)
             rest == SubSeq(line, at + 1, Len(line))
             top == open[Len(open)]
             outer == SubSeq(open, 1, Len(open) - 1)
         IN  IF rest \in {<<"}">>, <<"]">>}
             THEN /\ open /= <<>>
                  /\ top.at = at
                  /\ top.closing = rest[1]
                  /\ Outline(text, i + 1, n, outer, base)
             ELSE LET inList == open /= <<>> /\ top.closing = "]"
                      counted ==
                          IF inList
                          THEN outer \o <<[top EXCEPT !.next = top.next + 1]>>
                          ELSE open
                      opened ==
                          IF IsOpening(line)
                          THEN counted \o
                                   <<[at |-> at,
                                      closing |-> IF line[Len(line)] = "{"
                                                  THEN "}" ELSE "]",
                                      next |-> 0]>>
                          ELSE counted
                  IN  /\ at = (IF open = <<>> THEN base ELSE top.at + 2)
                      /\ inList =>
                             StartsWith(rest, <<"[">> \o FormatInt(top.next)
                                                  \o <<"]", ":", " ">>)
                      /\ ~inList => Head(rest) /= "["
                      /\ Outline(text, i + 1, n, opened, base)

\* C16: the lines PrintMapWithIndent(m, indent) writes form a well-nested
\* outline: each opening line ('key: {', 'key: [', '[i]: {') is followed
\* later by its closing line ('}' or ']') at the same indentation, the lines
\* between them stand at least two spaces deeper, a nested map is written at
\* indent + two spaces, the elements of a list in list order labelled [0],
\* [1], ... at indent + two spaces, a map that is a list element at indent +
\* four spaces, and the call terminates (on every input it writes a text).
C16_WellNestedOutline ==
    /\ call.op = "PrintMapWithIndent" =>
           /\ written = <<>> \/ written[Len(written)] = "\n"
           /\ Outline(written, 1, Count(written, "\n"), <<>>, Len(call.indent))
           /\ \A k \in DOMAIN call.m :
                  /\ call.m[k].kind = "map" =>
                         \A inner \in DOMAIN call.m[k].m :
                             Contains(written,
                                      <<"\n">> \o call.indent \o <<" ", " ">>
                                          \o inner \o <<":", " ">>)
                  /\ call.m[k].kind = "list" =>
                         \A i \in 1..Len(call.m[k].items) :
                             LET item == call.m[k].items[i]
                                 label == <<"\n">> \o call.indent
                                              \o <<" ", " ", "[">>
                                              \o FormatInt(i - 1)
                                              \o <<"]", ":", " ">>
                             IN  IF item.kind = "map"
                                 THEN Contains(written,
                                               label \o <<"{", "\n">>
                                                   \o call.indent
                                                   \o <<" ", " ", " ", " ">>
                                                   \o FmtKeys(item.m)[1])
                                 ELSE Contains(written,
                                               label \o FmtV(item) \o <<"\n">>)
    /\ call.op = "none" =>
           \A m \in Maps, indent \in Indents :
               \A out \in PrintMapWithIndent(m, indent) :
                   Count(out, "\n") >= Cardinality(DOMAIN m)

\* An indented call wrote a map nested in a map and a map that is the first
\* element of a list.
C16_Witness ==
    /\ call.op = "PrintMapWithIndent"
    /\ call.indent = <<" ", " ">>
    /\ \E k \in DOMAIN call.m : call.m[k] = MapV(NestedMap)
    /\ \E k \in DOMAIN call.m :
           call.m[k] = ListV(<<MapV(ElementMap), IntV(12)>>)
    /\ Contains(written, <<" ", " ", " ", " ", "[", "0", "]", ":", " ", "{", "\n">>)
    /\ Contains(written, <<"\n", " ", " ", " ", " ", "}", "\n">>)

(***************************************************************************)
(* Claims about the styles of the lines of a box.                          *)
(***************************************************************************)
\* line is the output of one application of style.
StyledBy(line, style) ==
    /\ Len(line) >= 2
    /\ Head(line) = style
    /\ line[Len(line)] = EscReset

\* What the style was applied to.
Styled(line) == SubSeq(line, 2, Len(line) - 1)

\* The escape sequences of s, in order.
EscapesOf(s) == SelectSeq(s, LAMBDA c : c \in Escapes)

\* C17 as stated: every line of a box (top border with or without tag,
\* timestamp line, each message line, bottom border) is passed through the
\* category style exactly once, and no style function is applied to text
\* that is already the output of a style function.
C17_NeverChained ==
    (IsLogCall /\ ~call.panic) =>
        \A i \in 1..(Count(Returned, "\n") + 1) :
            LET line == NthLine(Returned, i)
            IN  /\ StyledBy(line, CategoryStyle(call.op))
                /\ EscapesOf(Styled(line)) = <<>>

\* C17, amended: every line of a box is passed through the category style
\* exactly once; the text so styled holds no styled text, except that the
\* top border of a box with a non-empty tag holds the tag already passed
\* through the tag style (one application, around the tag only).
C17_ChainedOnlyAroundTag ==
    (IsLogCall /\ ~call.panic) =>
        \A i \in 1..(Count(Returned, "\n") + 1) :
            LET line == NthLine(Returned, i)
                tag == IF call.tag = <<>> THEN <<>> ELSE Head(call.tag)
            IN  /\ StyledBy(line, CategoryStyle(call.op))
                /\ IF i = 1 /\ tag /= <<>>
                   THEN /\ EscapesOf(Styled(line)) = <<tagColor, EscReset>>
                        /\ Contains(Styled(line),
                                    <<" ", tagColor>> \o tag \o <<EscReset, " ">>)
                   ELSE EscapesOf(Styled(line)) = <<>>

\* A tagged box with a timestamp: its top border holds the styled tag inside
\* the category style, its other lines are styled once.
C17_Witness ==
    /\ IsLogCall
    /\ ~call.panic
    /\ call.op = "Success"
    /\ call.tag /= <<>>
    /\ loggers[call.logger].showTimestamp
    /\ StartsWith(written, <<successColor, topLeft, " ", tagColor, "T">>)
    /\ Count(written, successColor) = Count(written, "\n")

=============================================================================
